---------------------------- MODULE Spec2Model ----------------------------
(***************************************************************************)
(* Model of the claim-risk document pipeline: text normalisation, document *)
(* type detection, structure detection, section splitting, chunking and    *)
(* the set-up of the retrievers.                                           *)
(*                                                                         *)
(* A text is a sequence of one-character strings.  Positions are 1-based;  *)
(* the end of a regular-expression match is the position of the first      *)
(* character after it, and 0 stands for "no match".                        *)
(***************************************************************************)
EXTENDS Integers, Sequences, FiniteSets, TLC

VARIABLES
    pc,               \* position of the run
    text,             \* the text handed to the operation under study
    cleaned_content,  \* clean_text(text)
    recleaned,        \* clean_text(cleaned_content)
    doc_type,         \* detect_document_type(text)
    structure_type,   \* detect_structure_type(text)
    sections,         \* split_by_sections(text)
    splits,           \* chunks of the text: [page_content, section]
    files,            \* terms_file, claim_file: what the loader finds
    processed_docs,   \* process_single_document's result for each file
    documents,        \* process_documents' result: a ProcessedDocument each
    retrievers,       \* what setup_retrievers built for each file
    relevant,         \* what each retriever returned for the query
    result            \* what process_claim returns

\* the state of process_claim
claimVars == <<files, processed_docs, documents, retrievers, relevant, result>>

vars == <<pc, text, cleaned_content, recleaned, doc_type, structure_type,
          sections, splits, claimVars>>

-----------------------------------------------------------------------------
(* Characters *)

NL == "\n"
SP == " "

UpperSeq == <<"A", "B", "C", "D", "E", "F", "G", "H", "I", "J", "K", "L", "M",
              "N", "O", "P", "Q", "R", "S", "T", "U", "V", "W", "X", "Y", "Z">>
LowerSeq == <<"a", "b", "c", "d", "e", "f", "g", "h", "i", "j", "k", "l", "m",
              "n", "o", "p", "q", "r", "s", "t", "u", "v", "w", "x", "y", "z">>
Upper == {UpperSeq[i] : i \in 1..Len(UpperSeq)}
Lower == {LowerSeq[i] : i \in 1..Len(LowerSeq)}
Digit == {"0", "1", "2", "3", "4", "5", "6", "7", "8", "9"}

\* str.isalnum for one character
Alnum == Upper \cup Lower \cup Digit
isalnum(c) == c \in Alnum

\* what str.split(), str.strip() and the pattern \s treat as white space
WS == {" ", "\t", "\n", "\r", "\f"}

\* the punctuation clean_text keeps: '. ,?!-()[]{}:;'
KeptPunctuation ==
    {".", " ", ",", "?", "!", "-", "(", ")", "[", "]", "{", "}", ":", ";"}

\* [A-Z\s] and [A-Z\d]
UpperOrSpace == Upper \cup WS
UpperOrDigit == Upper \cup Digit

\* str.lower for one character
lower_char(c) ==
    IF c \in Upper
    THEN LowerSeq[CHOOSE i \in 1..Len(UpperSeq) : UpperSeq[i] = c]
    ELSE c

\* str.lower
lower(t) == [i \in 1..Len(t) |-> lower_char(t[i])]

-----------------------------------------------------------------------------
(* Strings *)

Min(S) == CHOOSE x \in S : \A y \in S : x <= y
Max(S) == CHOOSE x \in S : \A y \in S : x >= y

\* the first position >= p whose character is not in S (Len(t)+1 if none)
RunEnd(t, p, S) ==
    IF p > Len(t) THEN Len(t) + 1
    ELSE CHOOSE i \in p..(Len(t) + 1) :
            /\ i > Len(t) \/ t[i] \notin S
            /\ \A j \in p..(i - 1) : t[j] \in S

\* the first position >= p whose character is in S (Len(t)+1 if none)
FindChar(t, p, S) ==
    IF p > Len(t) THEN Len(t) + 1
    ELSE CHOOSE i \in p..(Len(t) + 1) :
            /\ i > Len(t) \/ t[i] \in S
            /\ \A j \in p..(i - 1) : t[j] \notin S

\* t[p..] starts with lit
HasLit(t, p, lit) ==
    /\ p >= 1
    /\ p + Len(lit) - 1 <= Len(t)
    /\ \A i \in 1..Len(lit) : t[p + i - 1] = lit[i]

\* the first position >= p where t has lit (0 if none)
FindLit(t, p, lit) ==
    IF \E q \in p..(Len(t) - Len(lit) + 1) : HasLit(t, q, lit)
    THEN CHOOSE q \in p..(Len(t) - Len(lit) + 1) :
            /\ HasLit(t, q, lit)
            /\ \A r \in p..(q - 1) : ~HasLit(t, r, lit)
    ELSE 0

\* `sub in t`
IsSubstring(sub, t) == \E p \in 1..(Len(t) - Len(sub) + 1) : HasLit(t, p, sub)

\* sep.join(parts)
RECURSIVE join(_, _)
join(sep, parts) ==
    IF parts = <<>> THEN <<>>
    ELSE IF Len(parts) = 1 THEN parts[1]
    ELSE parts[1] \o sep \o join(sep, Tail(parts))

\* str.split(): the maximal runs of non-white-space characters from p on
RECURSIVE split_ws(_, _)
split_ws(t, p) ==
    LET s == RunEnd(t, p, WS)
        e == FindChar(t, s, WS)
    IN  IF s > Len(t) THEN <<>>
        ELSE <<SubSeq(t, s, e - 1)>> \o split_ws(t, e)

\* str.strip()
strip(t) ==
    LET s == RunEnd(t, 1, WS)
        e == CHOOSE i \in s..Len(t) :
                /\ t[i] \notin WS
                /\ \A j \in (i + 1)..Len(t) : t[j] \in WS
    IN  IF s > Len(t) THEN <<>> ELSE SubSeq(t, s, e)

-----------------------------------------------------------------------------
(* utils/text_preprocessing.py *)

Uncleaned(t) == t
clean_text(t) ==
    IF t = <<>> THEN <<>>
    ELSE LET joined == join(<<SP>>, split_ws(t, 1))
         IN  SelectSeq(joined, LAMBDA c : isalnum(c) \/ c \in KeptPunctuation)

\* the keyword table of detect_document_type, in declaration order
patterns == <<
    [doc_type |-> "claim_report", keywords |-> <<
        <<"c", "l", "a", "i", "m">>,
        <<"i", "n", "c", "i", "d", "e", "n", "t">>,
        <<"a", "c", "c", "i", "d", "e", "n", "t">>,
        <<"d", "a", "m", "a", "g", "e">>,
        <<"l", "o", "s", "s">> >>],
    [doc_type |-> "policy_document", keywords |-> <<
        <<"p", "o", "l", "i", "c", "y">>,
        <<"t", "e", "r", "m", "s">>,
        <<"c", "o", "n", "d", "i", "t", "i", "o", "n", "s">>,
        <<"c", "o", "v", "e", "r", "a", "g", "e">>,
        <<"i", "n", "s", "u", "r", "a", "n", "c", "e">> >>],
    [doc_type |-> "medical_report", keywords |-> <<
        <<"d", "i", "a", "g", "n", "o", "s", "i", "s">>,
        <<"t", "r", "e", "a", "t", "m", "e", "n", "t">>,
        <<"m", "e", "d", "i", "c", "a", "l">>,
        <<"p", "h", "y", "s", "i", "c", "i", "a", "n">>,
        <<"p", "a", "t", "i", "e", "n", "t">> >>],
    [doc_type |-> "invoice", keywords |-> <<
        <<"i", "n", "v", "o", "i", "c", "e">>,
        <<"b", "i", "l", "l">>,
        <<"p", "a", "y", "m", "e", "n", "t">>,
        <<"a", "m", "o", "u", "n", "t">>,
        <<"d", "u", "e">> >>],
    [doc_type |-> "correspondence", keywords |-> <<
        <<"l", "e", "t", "t", "e", "r">>,
        <<"e", "m", "a", "i", "l">>,
        <<"c", "o", "r", "r", "e", "s", "p", "o", "n", "d", "e", "n", "c", "e">>,
        <<"r", "e", "g", "a", "r", "d", "i", "n", "g">>,
        <<"d", "e", "a", "r">> >>] >>

\* sum(1 for keyword in keywords if keyword in content), summed from keyword k on
RECURSIVE keyword_sum(_, _, _)
keyword_sum(keywords, content, k) ==
    IF k > Len(keywords) THEN 0
    ELSE (IF IsSubstring(keywords[k], content) THEN 1 ELSE 0)
         + keyword_sum(keywords, content, k + 1)

\* the matches dictionary, as the sequence of its values in insertion order
matches(content) ==
    [i \in 1..Len(patterns) |-> keyword_sum(patterns[i].keywords, content, 1)]

\* the comparison max() makes between a later item and the best one so far
MaxReplacesTies(candidate, best) == candidate >= best
MaxReplaces(candidate, best) == candidate > best

\* max(matches.items(), key=lambda x: x[1]): the index of the item max() keeps,
\* scanning from item i with `best` the index kept so far
RECURSIVE max_item(_, _, _)
max_item(m, i, best) ==
    IF i > Len(m) THEN best
    ELSE max_item(m, i + 1, IF MaxReplaces(m[i], m[best]) THEN i ELSE best)

\* content.lower() as detect_document_type applies it
ContentAsGiven(content) == content
lowered(content) == lower(content)

detect_document_type(content) ==
    LET m == matches(lowered(content))
        max_matches == Max({m[i] : i \in 1..Len(m)})
    IN  IF max_matches = 0 THEN "other"
        ELSE patterns[max_item(m, 2, 1)].doc_type

-----------------------------------------------------------------------------
(* document_processor.py: the header patterns *)

\* `^` at position p; ml is re.MULTILINE
AtStart(t, p, ml) == p = 1 \/ (ml /\ p > 1 /\ p <= Len(t) + 1 /\ t[p - 1] = NL)

\* `$` at position p: the end, before a final newline, or (re.MULTILINE)
\* before any newline
AtEnd(t, p, ml) ==
    \/ p = Len(t) + 1
    \/ p = Len(t) /\ t[p] = NL
    \/ ml /\ p >= 1 /\ p <= Len(t) /\ t[p] = NL

\* `:?$` at position p
ColonEnd(t, p, ml) ==
    IF p <= Len(t) /\ t[p] = ":" /\ AtEnd(t, p + 1, ml) THEN p + 1
    ELSE IF AtEnd(t, p, ml) THEN p
    ELSE 0

\* X*:?$ at position p for a greedy run of characters of S, given back one
\* character at a time
RunColonEnd(t, p, S, ml) ==
    LET ends == {x \in p..RunEnd(t, p, S) : ColonEnd(t, x, ml) # 0}
    IN  IF ends = {} THEN 0 ELSE ColonEnd(t, Max(ends), ml)

\* `(?:\.\d+)*` at position p
RECURSIVE DotGroups(_, _)
DotGroups(t, p) ==
    IF p <= Len(t) /\ t[p] = "." /\ RunEnd(t, p + 1, Digit) > p + 1
    THEN DotGroups(t, RunEnd(t, p + 1, Digit))
    ELSE p

\* `\d+(?:\.\d+)*` at position p
Numbered(t, p) ==
    LET d == RunEnd(t, p, Digit)
    IN  IF d = p THEN 0 ELSE DotGroups(t, d)

\* the end of the literal of `words` that t has at position p (0 if none)
LitEnd(t, p, words) ==
    LET hit == {k \in 1..Len(words) : HasLit(t, p, words[k])}
    IN  IF hit = {} THEN 0 ELSE p + Len(words[Min(hit)])

SectionWords ==
    << <<"S", "e", "c", "t", "i", "o", "n">>,
       <<"S", "E", "C", "T", "I", "O", "N">> >>
ArticleWords ==
    << <<"A", "r", "t", "i", "c", "l", "e">>,
       <<"A", "R", "T", "I", "C", "L", "E">>,
       <<"C", "h", "a", "p", "t", "e", "r">>,
       <<"C", "H", "A", "P", "T", "E", "R">> >>
CoverageWords == << <<"C", "O", "V", "E", "R", "A", "G", "E">> >>
OptionalSWords ==
    << <<"E", "X", "C", "L", "U", "S", "I", "O", "N">>,
       <<"C", "O", "N", "D", "I", "T", "I", "O", "N">>,
       <<"D", "E", "F", "I", "N", "I", "T", "I", "O", "N">> >>
CommonWords ==
    << <<"P", "U", "R", "P", "O", "S", "E">>,
       <<"S", "C", "O", "P", "E">>,
       <<"I", "N", "T", "R", "O", "D", "U", "C", "T", "I", "O", "N">>,
       <<"B", "A", "C", "K", "G", "R", "O", "U", "N", "D">>,
       <<"S", "U", "M", "M", "A", "R", "Y">>,
       <<"C", "O", "N", "C", "L", "U", "S", "I", "O", "N">> >>
AppendixWords ==
    << <<"A", "p", "p", "e", "n", "d", "i", "x">>,
       <<"A", "P", "P", "E", "N", "D", "I", "X">>,
       <<"E", "x", "h", "i", "b", "i", "t">>,
       <<"E", "X", "H", "I", "B", "I", "T">> >>

\* `\s*(?:words)\s+\d+(?:\.\d+)*` at position p: patterns 1 and 5 after `^`
KeywordNumber(t, p, words) ==
    LET q == RunEnd(t, p, WS)
        r == LitEnd(t, q, words)
        w == RunEnd(t, r, WS)
    IN  IF r = 0 \/ w = r THEN 0 ELSE Numbered(t, w)

\* `\s*\d+(?:\.\d+)*\s+[A-Z]` at position p: pattern 2 after `^`
NumberCapital(t, p) ==
    LET q == RunEnd(t, p, WS)
        n == Numbered(t, q)
        w == RunEnd(t, n, WS)
    IN  IF n = 0 \/ w = n \/ w > Len(t) THEN 0
        ELSE IF t[w] \in Upper THEN w + 1 ELSE 0

\* `(?:\s*\(.*\))?:?$` at position p: the group is tried first, `.*` runs to
\* the end of the line and gives back to the last `)` that lets `:?$` match
ParenColonEnd(t, p, ml) ==
    LET w == RunEnd(t, p, WS)
        eol == FindChar(t, w + 1, {NL})
        closes == IF w > Len(t) \/ t[w] # "(" THEN {}
                  ELSE {j \in (w + 1)..(eol - 1) :
                           t[j] = ")" /\ ColonEnd(t, j + 1, ml) # 0}
    IN  IF closes # {} THEN ColonEnd(t, Max(closes) + 1, ml)
        ELSE ColonEnd(t, p, ml)

\* `\s*[A-Z][A-Z\s]{2,}(?:\s*\(.*\))?:?$` at position p: pattern 3 after `^`;
\* the greedy run gives characters back down to two
AllCaps(t, p, ml) ==
    LET q == RunEnd(t, p, WS)
        m == RunEnd(t, q + 1, UpperOrSpace)
        ends == IF q > Len(t) \/ t[q] \notin Upper THEN {}
                ELSE {r \in (q + 3)..m : ParenColonEnd(t, r, ml) # 0}
    IN  IF ends = {} THEN 0 ELSE ParenColonEnd(t, Max(ends), ml)

\* `S?\s*:?$` at position p
OptionalS(t, p, ml) ==
    IF p <= Len(t) /\ t[p] = "S" /\ RunColonEnd(t, p + 1, WS, ml) # 0
    THEN RunColonEnd(t, p + 1, WS, ml)
    ELSE RunColonEnd(t, p, WS, ml)

\* `\s*(?:COVERAGE|EXCLUSIONS?|CONDITIONS?|DEFINITIONS?)\s*:?$`: pattern 4
InsuranceSection(t, p, ml) ==
    LET q == RunEnd(t, p, WS)
        c == LitEnd(t, q, CoverageWords)
        r == LitEnd(t, q, OptionalSWords)
    IN  IF c # 0 THEN RunColonEnd(t, c, WS, ml)
        ELSE IF r # 0 THEN OptionalS(t, r, ml)
        ELSE 0

\* `\s*(?:PURPOSE|...|CONCLUSION)s*:?$` at position p: pattern 6 after `^`
CommonSection(t, p, ml) ==
    LET q == RunEnd(t, p, WS)
        r == LitEnd(t, q, CommonWords)
    IN  IF r = 0 THEN 0 ELSE RunColonEnd(t, r, {"s"}, ml)

\* `\s*(?:Appendix|APPENDIX|Exhibit|EXHIBIT)\s+[A-Z\d]+`: pattern 7 after `^`
Appendix(t, p) ==
    LET q == RunEnd(t, p, WS)
        r == LitEnd(t, q, AppendixWords)
        w == RunEnd(t, r, WS)
        e == RunEnd(t, w, UpperOrDigit)
    IN  IF r = 0 \/ w = r \/ e = w THEN 0 ELSE e

\* the alternatives of header_pattern at position p, in order
section_patterns(t, p, ml) ==
    << KeywordNumber(t, p, SectionWords),
       NumberCapital(t, p),
       AllCaps(t, p, ml),
       InsuranceSection(t, p, ml),
       KeywordNumber(t, p, ArticleWords),
       CommonSection(t, p, ml),
       Appendix(t, p) >>

\* the end of the match of header_pattern at position p (0: no match): the
\* first alternative that matches
header_pattern(t, p, ml) ==
    LET alt == section_patterns(t, p, ml)
        hit == {k \in 1..Len(alt) : alt[k] # 0}
    IN  IF ~AtStart(t, p, ml) \/ hit = {} THEN 0 ELSE alt[Min(hit)]

\* re.match(self.header_pattern, t)
re_match(t) == header_pattern(t, 1, FALSE) # 0

\* len(re.findall(self.header_pattern, t, re.MULTILINE)) from position p on
RECURSIVE findall_count(_, _)
findall_count(t, p) ==
    LET found == {q \in p..Len(t) : header_pattern(t, q, TRUE) # 0}
    IN  IF found = {} THEN 0
        ELSE 1 + findall_count(t, header_pattern(t, Min(found), TRUE))

HeaderThreshold == 5

FromThreshold(t) ==
    IF findall_count(t, 1) >= HeaderThreshold THEN "structured"
    ELSE "standard"
detect_structure_type(t) ==
    IF findall_count(t, 1) > HeaderThreshold THEN "structured" ELSE "standard"

\* t.split(c) from position p on
RECURSIVE split_char(_, _, _)
split_char(t, c, p) ==
    LET e == FindChar(t, p, {c})
    IN  IF e > Len(t) THEN <<SubSeq(t, p, Len(t))>>
        ELSE <<SubSeq(t, p, e - 1)>> \o split_char(t, c, e + 1)

\* re.match(self.header_pattern, line.strip())
is_header(line) == re_match(strip(line))

\* sections.append('\n'.join(current_section)), guarded by `if current_section`
FlushAlways(secs, current) == Append(secs, join(<<NL>>, current))
flush(secs, current) ==
    IF current # <<>> THEN Append(secs, join(<<NL>>, current)) ELSE secs

\* current_section = [line]
NewSectionWithoutHeader(line) == <<>>
new_section(line) == <<line>>

\* the loop of split_by_sections from line i on, and the final flush
RECURSIVE section_loop(_, _, _, _)
section_loop(lines, i, secs, current) ==
    IF i > Len(lines) THEN flush(secs, current)
    ELSE IF is_header(lines[i])
         THEN section_loop(lines, i + 1, flush(secs, current),
                           new_section(lines[i]))
         ELSE section_loop(lines, i + 1, secs, Append(current, lines[i]))

split_by_sections(t) == section_loop(split_char(t, NL, 1), 1, <<>>, <<>>)

-----------------------------------------------------------------------------
(* document_processor.py: the text splitter *)

ChunkSizeStructured == 1000
ChunkOverlapStructured == 200
ChunkSizeStandard == 500
ChunkOverlapStandard == 50

\* the arguments create_text_splitter gives RecursiveCharacterTextSplitter
create_text_splitter(structure) ==
    IF structure = "structured"
    THEN [separators |-> << <<NL, NL>>, <<NL>>, <<SP>> >>,
          chunk_size |-> ChunkSizeStructured,
          chunk_overlap |-> ChunkOverlapStructured,
          keep_separator |-> TRUE,
          strip_whitespace |-> TRUE]
    ELSE [separators |-> << <<NL, NL>>, <<NL>>, <<".">>, <<SP>> >>,
          chunk_size |-> ChunkSizeStandard,
          chunk_overlap |-> ChunkOverlapStandard,
          keep_separator |-> FALSE,
          strip_whitespace |-> TRUE]

\* re.split(re.escape(sep), t) from position p on: the pieces between the
\* occurrences of sep, found left to right
RECURSIVE re_split(_, _, _)
re_split(t, sep, p) ==
    LET q == FindLit(t, p, sep)
    IN  IF q = 0 THEN <<SubSeq(t, p, Len(t))>>
        ELSE <<SubSeq(t, p, q - 1)>> \o re_split(t, sep, q + Len(sep))

\* _split_text_with_regex: with keep_separator each separator is put in front
\* of the piece that follows it; empty pieces are left out
split_text_with_regex(t, sep, keep_separator) ==
    LET pieces == re_split(t, sep, 1)
        kept == [i \in 1..Len(pieces) |->
                    IF keep_separator /\ i > 1 THEN sep \o pieces[i]
                    ELSE pieces[i]]
    IN  SelectSeq(kept, LAMBDA piece : piece # <<>>)

\* _join_docs: the pieces joined, stripped; <<>> wraps "no document"
join_docs(current_doc, sep, splitter) ==
    LET joined == join(sep, current_doc)
        doc == IF splitter.strip_whitespace THEN strip(joined) ELSE joined
    IN  IF doc = <<>> THEN <<>> ELSE <<doc>>

\* the length the separator adds to a document of n pieces that gets one more
sep_len(sep, n) == IF n > 0 THEN Len(sep) ELSE 0

\* nothing is dropped from the front of current_doc
PopNothing(current_doc, total, len, sep, splitter) ==
    [current_doc |-> current_doc, total |-> total]

\* the `while` of _merge_splits: pieces are dropped from the front of
\* current_doc until what is left fits the overlap and leaves room for a
\* piece of length len
RECURSIVE pop_front(_, _, _, _, _)
pop_front(current_doc, total, len, sep, splitter) ==
    IF \/ total > splitter.chunk_overlap
       \/ /\ total + len + sep_len(sep, Len(current_doc)) > splitter.chunk_size
          /\ total > 0
    THEN pop_front(Tail(current_doc),
                   total - (Len(current_doc[1])
                            + (IF Len(current_doc) > 1 THEN Len(sep) ELSE 0)),
                   len, sep, splitter)
    ELSE [current_doc |-> current_doc, total |-> total]

\* the `for` of _merge_splits from piece i on, and the last document
RECURSIVE merge_loop(_, _, _, _, _, _, _)
merge_loop(pieces, i, docs, current_doc, total, sep, splitter) ==
    IF i > Len(pieces) THEN docs \o join_docs(current_doc, sep, splitter)
    ELSE
      LET len == Len(pieces[i])
          full == total + len + sep_len(sep, Len(current_doc))
                      > splitter.chunk_size
          flushed == full /\ Len(current_doc) > 0
          docs1 == IF flushed THEN docs \o join_docs(current_doc, sep, splitter)
                   ELSE docs
          rest == IF flushed
                  THEN pop_front(current_doc, total, len, sep, splitter)
                  ELSE [current_doc |-> current_doc, total |-> total]
      IN  merge_loop(pieces, i + 1, docs1,
                     Append(rest.current_doc, pieces[i]),
                     rest.total + len + sep_len(sep, Len(rest.current_doc)),
                     sep, splitter)

merge_splits(pieces, sep, splitter) ==
    merge_loop(pieces, 1, <<>>, <<>>, 0, sep, splitter)

\* the separator the merged pieces are joined with
merge_separator(sep, splitter) ==
    IF splitter.keep_separator THEN <<>> ELSE sep

\* the index of the first separator of the list that occurs in t (0 if none)
first_separator(t, separators) ==
    LET hit == {k \in 1..Len(separators) : IsSubstring(separators[k], t)}
    IN  IF hit = {} THEN 0 ELSE Min(hit)

\* RecursiveCharacterTextSplitter._split_text: the text is split at the first
\* separator of the list it contains (at the last one if it contains none);
\* pieces below chunk_size are merged, a longer piece is split again with the
\* separators that remain, and is a chunk as it is when none remains
RECURSIVE split_text_with(_, _, _)
RECURSIVE split_loop(_, _, _, _, _, _, _)
split_loop(pieces, i, good_splits, final_chunks, sep, new_separators, splitter) ==
    LET merged == IF good_splits # <<>>
                  THEN merge_splits(good_splits,
                                    merge_separator(sep, splitter), splitter)
                  ELSE <<>>
    IN  IF i > Len(pieces) THEN final_chunks \o merged
        ELSE IF Len(pieces[i]) < splitter.chunk_size
        THEN split_loop(pieces, i + 1, Append(good_splits, pieces[i]),
                        final_chunks, sep, new_separators, splitter)
        ELSE split_loop(pieces, i + 1, <<>>,
                        final_chunks \o merged
                          \o (IF new_separators = <<>> THEN <<pieces[i]>>
                              ELSE split_text_with(pieces[i], new_separators,
                                                   splitter)),
                        sep, new_separators, splitter)

split_text_with(t, separators, splitter) ==
    LET k == first_separator(t, separators)
        sep == IF k = 0 THEN separators[Len(separators)] ELSE separators[k]
        new_separators == IF k = 0 THEN <<>>
                          ELSE SubSeq(separators, k + 1, Len(separators))
    IN  split_loop(split_text_with_regex(t, sep, splitter.keep_separator),
                   1, <<>>, <<>>, sep, new_separators, splitter)

\* text_splitter.split_text(t)
split_text(splitter, t) == split_text_with(t, splitter.separators, splitter)

\* the Documents made of the splits of one text; `section` is the index of
\* the section the text is (0: the text is a whole page)
documents_of(chunks, section) ==
    [i \in 1..Len(chunks) |-> [page_content |-> chunks[i], section |-> section]]

\* the splitter run once on the whole text
WholeTextSplits(t, secs, splitter) == documents_of(split_text(splitter, t), 1)

\* process_single_document, structured branch: the splitter run on each
\* section in turn, from section i on
RECURSIVE section_splits(_, _, _)
section_splits(secs, i, splitter) ==
    IF i > Len(secs) THEN <<>>
    ELSE documents_of(split_text(splitter, secs[i]), i)
         \o section_splits(secs, i + 1, splitter)

structured_splits(t, secs, splitter) == section_splits(secs, 1, splitter)

-----------------------------------------------------------------------------
(* Bounds and inputs *)

Files == {"terms", "claim"}

NoFile == [exists |-> FALSE, loads |-> FALSE, pages |-> <<>>]
NoRetriever == [state |-> "none", calls |-> <<>>, bm25 |-> <<>>,
                vectorstore |-> <<>>]
NoRelevant == [state |-> "none", lexical |-> <<>>, vector |-> <<>>,
               rrf_score |-> <<>>, fused |-> <<>>]

\* the dict process_claim returns: its keys and the value of "error"
NoResult == [status |-> "none", keys |-> {}, error |-> ""]
ErrorOnly(e) == [status |-> "error", keys |-> {"error"}, error |-> e]
error_result(e) ==
    [status |-> "error", keys |-> {"error", "metadata"}, error |-> e]
analysis_result ==
    [status |-> "analysis", keys |-> {"analysis", "metadata"}, error |-> ""]

\* no claim is being processed
NoClaim ==
    /\ files = [f \in Files |-> NoFile]
    /\ processed_docs = [f \in Files |-> <<>>]
    /\ documents = [f \in Files |-> [content |-> <<>>, sections |-> <<>>]]
    /\ retrievers = [f \in Files |-> NoRetriever]
    /\ relevant = [f \in Files |-> NoRelevant]
    /\ result = NoResult

MaxTextLen == 4

\* raw characters: a letter, kept punctuation, white space, a removed character
RawAlphabet == {"a", ".", " ", NL, "#"}

\* n copies of the character c
run_of(c, n) == [i \in 1..n |-> c]

TextsUpTo(alphabet, n) == UNION {[1..k -> alphabet] : k \in 0..n}

RawTexts == TextsUpTo(RawAlphabet, MaxTextLen)

-----------------------------------------------------------------------------
(* The normaliser applied once and twice *)

InitText ==
    /\ pc = "text"
    /\ text \in RawTexts
    /\ cleaned_content = <<>>
    /\ recleaned = <<>>
    /\ doc_type = ""
    /\ structure_type = ""
    /\ sections = <<>>
    /\ splits = <<>>
    /\ NoClaim

Normalize ==
    /\ pc = "text"
    /\ cleaned_content' = clean_text(text)
    /\ pc' = "normalized"
    /\ UNCHANGED <<text, recleaned, doc_type, structure_type, sections, splits,
                   claimVars>>

Renormalize ==
    /\ pc = "normalized"
    /\ recleaned' = clean_text(cleaned_content)
    /\ pc' = "renormalized"
    /\ UNCHANGED <<text, cleaned_content, doc_type, structure_type, sections,
                   splits,
                   claimVars>>

NextText == Normalize \/ Renormalize

SpecText == InitText /\ [][NextText]_vars

\* C3: the normaliser is idempotent: normalising a normalised text changes
\* nothing.
C3_Idempotent == pc = "renormalized" => recleaned = cleaned_content

-----------------------------------------------------------------------------
(* The document-type classifier on texts made of words *)

MaxWords == 4

\* words of a page: keywords of three categories, one of them capitalised
Vocabulary == <<
    <<"C", "l", "a", "i", "m">>,
    <<"l", "o", "s", "s">>,
    <<"d", "a", "m", "a", "g", "e">>,
    <<"p", "o", "l", "i", "c", "y">>,
    <<"b", "i", "l", "l">>,
    <<"t", "h", "e">> >>

\* the texts of at most n vocabulary words, separated by single spaces
WordTexts(n) ==
    {join(<<SP>>, [i \in 1..Len(w) |-> Vocabulary[w[i]]]) :
        w \in UNION {[1..k -> 1..Len(Vocabulary)] : k \in 0..n}}

InitType ==
    /\ pc = "text"
    /\ text \in WordTexts(MaxWords)
    /\ cleaned_content = <<>>
    /\ recleaned = <<>>
    /\ doc_type = ""
    /\ structure_type = ""
    /\ sections = <<>>
    /\ splits = <<>>
    /\ NoClaim

DetectDocumentType ==
    /\ pc = "text"
    /\ doc_type' = detect_document_type(text)
    /\ pc' = "classified"
    /\ UNCHANGED <<text, cleaned_content, recleaned, structure_type, sections,
                   splits,
                   claimVars>>

NextType == DetectDocumentType

SpecType == InitType /\ [][NextType]_vars

\* the number of keywords of category i that occur in the lower-cased text
present(i) ==
    Cardinality({k \in 1..Len(patterns[i].keywords) :
                    IsSubstring(patterns[i].keywords[k], lower(text))})

\* the number of (non-overlapping) occurrences of kw in t from position p on
RECURSIVE count_from(_, _, _)
count_from(kw, t, p) ==
    LET hit == {q \in p..(Len(t) - Len(kw) + 1) : HasLit(t, q, kw)}
    IN  IF hit = {} THEN 0 ELSE 1 + count_from(kw, t, Min(hit) + Len(kw))

\* the total number of occurrences of the keywords of category i, from keyword k
RECURSIVE occurrences_from(_, _)
occurrences_from(i, k) ==
    IF k > Len(patterns[i].keywords) THEN 0
    ELSE count_from(patterns[i].keywords[k], lower(text), 1)
         + occurrences_from(i, k + 1)

occurrences(i) == occurrences_from(i, 1)

Categories == 1..Len(patterns)
Category(name) == CHOOSE i \in Categories : patterns[i].doc_type = name

\* C4 as stated: the classifier returns a category whose keywords have the
\* highest total number of occurrences, every occurrence counting once.
C4_MostOccurrences ==
    (pc = "classified" /\ \E i \in Categories : occurrences(i) > 0)
        => \E i \in Categories :
              /\ doc_type = patterns[i].doc_type
              /\ \A j \in Categories : occurrences(j) <= occurrences(i)

\* C4 as amended: the classifier returns a category with the highest number
\* of distinct keywords present in the lower-cased text, a keyword counting
\* once however often it occurs.
C4_MostKeywordsPresent ==
    (pc = "classified" /\ \E i \in Categories : present(i) > 0)
        => \E i \in Categories :
              /\ doc_type = patterns[i].doc_type
              /\ \A j \in Categories : present(j) <= present(i)

\* three claim keywords and one policy keyword, classified claim_report
C4_ThreeClaimOnePolicy ==
    /\ pc = "classified"
    /\ present(Category("claim_report")) = 3
    /\ present(Category("policy_document")) = 1
    /\ doc_type = "claim_report"

\* C5: on a tie for the highest non-zero count the category declared first is
\* returned, and "other" is returned exactly when every count is zero.
C5_FirstDeclaredOnTie ==
    pc = "classified" =>
        /\ doc_type = "other" <=> \A i \in Categories : present(i) = 0
        /\ doc_type # "other" =>
              Category(doc_type) =
                  Min({i \in Categories :
                          \A j \in Categories : present(j) <= present(i)})

\* two categories share the highest non-zero count
C5_Tie ==
    /\ pc = "classified"
    /\ \E i, j \in Categories :
          /\ i < j
          /\ present(i) > 0
          /\ present(i) = present(j)
          /\ \A k \in Categories : present(k) <= present(i)
          /\ doc_type = patterns[i].doc_type

-----------------------------------------------------------------------------
(* Structure detection and section splitting on texts made of lines *)

MaxLines == 6

\* lines of a page: two headers, a body line, an empty line
LineVocabulary == <<
    <<"S", "E", "C", "T", "I", "O", "N", " ", "1">>,
    <<"C", "O", "V", "E", "R", "A", "G", "E", ":">>,
    <<"r", "i", "s", "k", ".">>,
    <<>> >>

\* the texts of at most n vocabulary lines, separated by newlines
LineTexts(n) ==
    {join(<<NL>>, [i \in 1..Len(w) |-> LineVocabulary[w[i]]]) :
        w \in UNION {[1..k -> 1..Len(LineVocabulary)] : k \in 0..n}}

MaxBodyLines == 7

\* a text of six numbered sections, the first two with a and b body lines of
\* 150 characters
long_section(n) ==
    join(<<NL>>, <<LineVocabulary[1]>> \o [i \in 1..n |-> run_of("x", 150)])

LongSectionTexts(n) ==
    {join(<<NL>>, <<long_section(a), long_section(b), LineVocabulary[1],
                    LineVocabulary[1], LineVocabulary[1], LineVocabulary[1]>>) :
        a \in 0..n, b \in 0..n}

InitSections ==
    /\ pc = "text"
    /\ text \in LineTexts(MaxLines) \cup LongSectionTexts(MaxBodyLines)
    /\ cleaned_content = <<>>
    /\ recleaned = <<>>
    /\ doc_type = ""
    /\ structure_type = ""
    /\ sections = <<>>
    /\ splits = <<>>
    /\ NoClaim

DetectStructureType ==
    /\ pc = "text"
    /\ structure_type' = detect_structure_type(text)
    /\ pc' = "detected"
    /\ UNCHANGED <<text, cleaned_content, recleaned, doc_type, sections, splits,
                   claimVars>>

SplitBySections ==
    /\ pc = "detected"
    /\ sections' = split_by_sections(text)
    /\ pc' = "split"
    /\ UNCHANGED <<text, cleaned_content, recleaned, doc_type, structure_type,
                   splits,
                   claimVars>>

\* process_single_document, lines 122-137: each section is split on its own
ChunkSections ==
    /\ pc = "split"
    /\ structure_type = "structured"
    /\ splits' = structured_splits(text, sections,
                                    create_text_splitter(structure_type))
    /\ pc' = "chunked"
    /\ UNCHANGED <<text, cleaned_content, recleaned, doc_type, structure_type,
                   sections, claimVars>>

NextSections == DetectStructureType \/ SplitBySections \/ ChunkSections

SpecSections == InitSections /\ [][NextSections]_vars

\* the concatenation of the texts of a sequence
RECURSIVE concat(_)
concat(parts) == IF parts = <<>> THEN <<>> ELSE parts[1] \o concat(Tail(parts))

\* C6 as stated: for a text with more than 5 header matches the sections
\* concatenated in order are the text, character for character.
C6_ConcatenationIsText ==
    (pc = "split" /\ structure_type = "structured") => concat(sections) = text

\* C6 as amended: for a text with more than 5 header matches the sections
\* joined by a newline between consecutive sections are the text.
C6_NewlineJoinIsText ==
    (pc = "split" /\ structure_type = "structured")
        => join(<<NL>>, sections) = text

\* a structured text split into several sections
C6_StructuredSplit ==
    /\ pc = "split"
    /\ structure_type = "structured"
    /\ Len(sections) >= 6

\* the lines of a text
lines_of(t) == split_char(t, NL, 1)
header_lines(t) == {i \in 1..Len(lines_of(t)) : is_header(lines_of(t)[i])}

\* C7: every header line is the first line of a section and no section holds
\* a header line after its first line: every section but possibly the first
\* begins with a header line, there are as many sections as header lines,
\* plus one if the text starts with a non-header line, and a text with no
\* header line is returned whole as one section.
C7_HeadersStartSections ==
    pc = "split" =>
        /\ \A s \in 1..Len(sections) :
              /\ \A k \in 2..Len(lines_of(sections[s])) :
                    ~is_header(lines_of(sections[s])[k])
              /\ s > 1 => is_header(lines_of(sections[s])[1])
        /\ Len(sections) = Cardinality(header_lines(text))
                           + (IF 1 \in header_lines(text) THEN 0 ELSE 1)
        /\ header_lines(text) = {} => sections = <<text>>

\* a text that starts with body lines and has header lines further on
C7_BodyThenHeaders ==
    /\ pc = "split"
    /\ 1 \notin header_lines(text)
    /\ Cardinality(header_lines(text)) >= 2
    /\ \E s \in 2..Len(sections) : Len(lines_of(sections[s])) >= 2

-----------------------------------------------------------------------------
(* Normalising and chunking a page, for both splitter profiles *)

MaxParts == 3

\* parts of a page: words of 40, 300 and 600 characters
PartVocabulary == <<run_of("a", 40), run_of("b", 300), run_of("c", 600)>>

\* what stands between two parts: a space, a full stop and a space, a
\* removed character between two spaces
Joiners == << <<SP>>, <<".", SP>>, <<SP, "#", SP>> >>

\* parts w[1..Len(w)] with joiner j[i] between part i and part i+1
RECURSIVE page_of(_, _, _)
page_of(w, j, i) ==
    IF i > Len(w) THEN <<>>
    ELSE PartVocabulary[w[i]]
         \o (IF i < Len(w) THEN Joiners[j[i]] ELSE <<>>)
         \o page_of(w, j, i + 1)

PageTexts(n) ==
    UNION {{page_of(w, j, 1) :
              w \in [1..k -> 1..Len(PartVocabulary)],
              j \in [1..(k - 1) -> 1..Len(Joiners)]} : k \in 0..n}

InitChunk ==
    /\ pc = "text"
    /\ text \in PageTexts(MaxParts)
    /\ structure_type \in {"structured", "standard"}
    /\ cleaned_content = <<>>
    /\ recleaned = <<>>
    /\ doc_type = ""
    /\ sections = <<>>
    /\ splits = <<>>
    /\ NoClaim

CleanPage ==
    /\ pc = "text"
    /\ cleaned_content' = clean_text(text)
    /\ pc' = "cleaned"
    /\ UNCHANGED <<text, recleaned, doc_type, structure_type, sections, splits,
                   claimVars>>

\* splits = text_splitter.split_text(cleaned_content), each split a Document
SplitPage ==
    /\ pc = "cleaned"
    /\ LET chunks == split_text(create_text_splitter(structure_type),
                                cleaned_content)
       IN  splits' = documents_of(chunks, 0)
    /\ pc' = "chunked"
    /\ UNCHANGED <<text, cleaned_content, recleaned, doc_type, structure_type,
                   sections, claimVars>>

NextChunk == CleanPage \/ SplitPage

SpecChunk == InitChunk /\ [][NextChunk]_vars

\* C8: every chunk is at most the profile's target size long.
C8_ChunksWithinBudget ==
    pc = "chunked" =>
        \A i \in 1..Len(splits) :
            Len(splits[i].page_content)
                <= create_text_splitter(structure_type).chunk_size

\* the characters of t that are not in D
without(t, D) == SelectSeq(t, LAMBDA c : c \notin D)

\* the configured overlap of the profile in use
overlap_bound == create_text_splitter(structure_type).chunk_overlap

\* chunk i starts with the last k characters of chunk i-1
overlaps(chunks, i, k) ==
    \/ k = 0
    \/ /\ i > 1
       /\ k <= Len(chunks[i])
       /\ k <= Len(chunks[i - 1])
       /\ SubSeq(chunks[i], 1, k)
            = SubSeq(chunks[i - 1], Len(chunks[i - 1]) - k + 1,
                     Len(chunks[i - 1]))

\* the unique spans of chunks i.. (each chunk without an overlap with its
\* predecessor), with the characters of D left out, are t from position p on
RECURSIVE covers(_, _, _, _, _)
covers(t, chunks, i, p, D) ==
    IF i > Len(chunks) THEN p = Len(t) + 1
    ELSE \E k \in 0..overlap_bound :
            /\ overlaps(chunks, i, k)
            /\ LET u == without(SubSeq(chunks[i], k + 1, Len(chunks[i])), D)
               IN  HasLit(t, p, u) /\ covers(t, chunks, i + 1, p + Len(u), D)

chunk_texts == [i \in 1..Len(splits) |-> splits[i].page_content]

\* the characters the splitter splits at or strips: full stop and white space
SeparatorChars == WS \cup {"."}

\* C9 as stated: the chunks' unique spans, concatenated in order, are the
\* normalised text exactly.
C9_Lossless ==
    pc = "chunked" => covers(cleaned_content, chunk_texts, 1, 1, {})

\* C9 as amended: the chunks' unique spans, concatenated in order, are the
\* normalised text up to full stops and spaces: every other character is
\* kept, once and in order.
C9_LosslessUpToSeparators ==
    pc = "chunked" =>
        covers(without(cleaned_content, SeparatorChars), chunk_texts, 1, 1,
               SeparatorChars)

\* two chunks of which the second starts with the end of the first, and a
\* separator between them that is in neither
C9_OverlapAndDroppedSeparator ==
    /\ pc = "chunked"
    /\ Len(splits) >= 2
    /\ \E k \in 1..overlap_bound : overlaps(chunk_texts, 2, k)
    /\ ~covers(cleaned_content, chunk_texts, 1, 1, {})

\* C10: in the structured branch every chunk is a span of the one section
\* the splitter was run on: the chunks come section by section, each is part
\* of its own section, and none holds a header line after its first line, so
\* no chunk has text of two sections and no overlap crosses a section boundary.
C10_ChunksWithinOneSection ==
    (pc = "chunked" /\ structure_type = "structured") =>
        \A i \in 1..Len(splits) :
            /\ splits[i].section \in 1..Len(sections)
            /\ i > 1 => splits[i - 1].section <= splits[i].section
            /\ IsSubstring(splits[i].page_content, sections[splits[i].section])
            /\ \A k \in 2..Len(lines_of(splits[i].page_content)) :
                  ~is_header(lines_of(splits[i].page_content)[k])

\* a section split into two chunks that overlap, followed by the chunk of
\* the next section
C10_OverlapInsideSection ==
    /\ pc = "chunked"
    /\ structure_type = "structured"
    /\ \E i \in 2..(Len(splits) - 1) :
          /\ splits[i - 1].section = splits[i].section
          /\ \E k \in 1..overlap_bound : overlaps(chunk_texts, i, k)
          /\ splits[i + 1].section = splits[i].section + 1

-----------------------------------------------------------------------------
(* detect_structure_type on texts of headers with and without body lines *)

MaxUnits == 6

\* a numbered header with a body line, a named header with a body line, a
\* header alone
UnitVocabulary == <<
    join(<<NL>>, <<LineVocabulary[1], LineVocabulary[3]>>),
    join(<<NL>>, <<LineVocabulary[2], LineVocabulary[3]>>),
    LineVocabulary[1] >>

UnitTexts(n) ==
    {join(<<NL>>, [i \in 1..Len(w) |-> UnitVocabulary[w[i]]]) :
        w \in UNION {[1..k -> 1..Len(UnitVocabulary)] : k \in 0..n}}

InitStructure ==
    /\ pc = "text"
    /\ text \in UnitTexts(MaxUnits)
    /\ cleaned_content = <<>>
    /\ recleaned = <<>>
    /\ doc_type = ""
    /\ structure_type = ""
    /\ sections = <<>>
    /\ splits = <<>>
    /\ NoClaim

NextStructure == DetectStructureType

SpecStructure == InitStructure /\ [][NextStructure]_vars

\* every header line of t is followed by a line of body text
headers_with_body(t) ==
    \A i \in header_lines(t) :
        /\ i < Len(lines_of(t))
        /\ i + 1 \notin header_lines(t)
        /\ strip(lines_of(t)[i + 1]) # <<>>

-----------------------------------------------------------------------------
(* process_claim: both files are chunked, each set of chunks becomes a
   ProcessedDocument, and setup_retrievers builds a BM25 index and a vector
   store for each *)

\* the Documents of one page with the metadata of the file and of the page
with_metadata(docs, structure, file_doc_type) ==
    [i \in 1..Len(docs) |->
        [page_content |-> docs[i].page_content,
         structure_type |-> structure,
         doc_type |-> file_doc_type]]

\* the two branches of `if structure_type == "structured"`
page_splits(cleaned, structure, text_splitter) ==
    IF structure = "structured"
    THEN structured_splits(cleaned, split_by_sections(cleaned), text_splitter)
    ELSE documents_of(split_text(text_splitter, cleaned), 0)

\* the body of `for doc in docs` from the cleaned page on; an empty page is
\* skipped
cleaned_page_documents(cleaned, structure, file_doc_type) ==
    IF cleaned = <<>> THEN <<>>
    ELSE with_metadata(
             page_splits(cleaned, structure, create_text_splitter(structure)),
             structure, file_doc_type)

structure_of(cleaned) ==
    IF cleaned = <<>> THEN "" ELSE detect_structure_type(cleaned)

cleaned_documents(cleaned, file_doc_type) ==
    cleaned_page_documents(cleaned, structure_of(cleaned), file_doc_type)

page_documents(page, file_doc_type) ==
    cleaned_documents(clean_text(page), file_doc_type)

RECURSIVE pages_documents(_, _, _)
pages_documents(docs, i, file_doc_type) ==
    IF i > Len(docs) THEN <<>>
    ELSE page_documents(docs[i], file_doc_type)
             \o pages_documents(docs, i + 1, file_doc_type)

\* a missing file, a loader that raises and a file without pages give no chunk
process_single_document(file) ==
    IF ~file.exists THEN <<>>
    ELSE IF ~file.loads THEN <<>>
    ELSE IF file.pages = <<>> THEN <<>>
    ELSE pages_documents(file.pages, 1, detect_document_type(file.pages[1]))

\* set(titles): the first line of every chunk that starts with a header
get_section_titles(docs) ==
    {split_char(strip(docs[i].page_content), NL, 1)[1] :
        i \in {k \in 1..Len(docs) :
                  header_pattern(strip(docs[k].page_content), 1, TRUE) # 0}}

\* list(set(titles)): the titles in any order
Orderings(titles) ==
    {s \in [1..Cardinality(titles) -> titles] :
        \A t \in titles : \E i \in 1..Cardinality(titles) : s[i] = t}

page_contents(docs) == [i \in 1..Len(docs) |-> docs[i].page_content]

\* instances of the ProcessedDocument dataclass are true whatever they hold
truthy(processed_doc) == TRUE

\* processed_doc.sections if processed_doc.sections else [content]
chunks_of(processed_doc) ==
    IF processed_doc.sections # <<>> THEN processed_doc.sections
    ELSE <<processed_doc.content>>

_convert_to_documents(processed_doc) ==
    LET chunks == chunks_of(processed_doc)
    IN  [i \in 1..Len(chunks) |->
            [page_content |-> chunks[i],
             chunk_index |-> i - 1,
             total_chunks |-> Len(chunks)]]

\* str(e) of the exceptions process_claim catches, and its own message
NoDocuments == "No documents available for retriever setup"
NoneProcessed == "No documents were successfully processed"
MissingTypes ==
    "Missing required document types. Need both terms & conditions and claim reports."
LibraryError == "raised by a library call"

MaxPages == 2
PageVocabulary ==
    << <<"C", "l", "a", "i", "m", " ", "l", "o", "s", "s", ".">>,
       <<"S", "e", "c", "t", "i", "o", "n", " ", "2">>,
       <<"S", "C", "O", "P", "E">>,
       <<" ", " ">> >>

FileInputs(n) ==
    {NoFile, [exists |-> TRUE, loads |-> FALSE, pages |-> <<>>]}
    \cup UNION {{[exists |-> TRUE, loads |-> TRUE,
                  pages |-> [i \in 1..k |-> PageVocabulary[p[i]]]] :
                    p \in [1..k -> 1..Len(PageVocabulary)]} : k \in 0..n}

Init ==
    /\ pc = "start"
    /\ files \in [Files -> FileInputs(MaxPages)]
    /\ processed_docs = [f \in Files |-> <<>>]
    /\ documents = [f \in Files |-> [content |-> <<>>, sections |-> <<>>]]
    /\ retrievers = [f \in Files |-> NoRetriever]
    /\ relevant = [f \in Files |-> NoRelevant]
    /\ result = NoResult
    /\ text = <<>>
    /\ cleaned_content = <<>>
    /\ recleaned = <<>>
    /\ doc_type = ""
    /\ structure_type = ""
    /\ sections = <<>>
    /\ splits = <<>>

textVars == <<text, cleaned_content, recleaned, doc_type, structure_type,
              sections, splits>>

\* ProcessedDocument(content="\n".join(...), sections=sections, ...)
ProcessedDocument(docs, titles) ==
    [content |-> join(<<NL>>, page_contents(docs)), sections |-> titles]

\* what process_documents may return for the chunks of the two files
AllOrNothing(docs) ==
    {[terms |-> ProcessedDocument(IF docs.claim = <<>> THEN <<>>
                                  ELSE docs.terms, <<>>),
      claim |-> ProcessedDocument(IF docs.terms = <<>> THEN <<>>
                                  ELSE docs.claim, <<>>)]}
process_documents(docs) ==
    {[terms |-> ProcessedDocument(docs.terms, terms_sections),
      claim |-> ProcessedDocument(docs.claim, claim_sections)] :
        terms_sections \in Orderings(get_section_titles(docs.terms)),
        claim_sections \in Orderings(get_section_titles(docs.claim))}

\* documents = self.document_processor.process_documents(...), and the two
\* checks of the result: `if not documents` is never true of a tuple of two,
\* the second asks whether the two ProcessedDocuments are true
ProcessDocuments ==
    /\ pc = "start"
    /\ processed_docs' = [f \in Files |-> process_single_document(files[f])]
    /\ documents' \in process_documents(processed_docs')
    /\ IF truthy(documents'.terms) /\ truthy(documents'.claim)
       THEN pc' = "tc_retriever" /\ result' = result
       ELSE pc' = "done"
            /\ result' = error_result(MissingTypes)
    /\ UNCHANGED <<files, retrievers, relevant, textVars>>

-----------------------------------------------------------------------------
(* The ensemble retriever: BM25 with k = 3, the vector store with k = 2,
   weights 0.5 and 0.5, fused by weighted reciprocal rank *)

K_Lexical == 3
K_Vector == 2

\* weights=[0.5, 0.5], in tenths
Weights == <<5, 5>>

\* EnsembleRetriever.c
RankConstant == 60

\* scores are kept exactly: weight / (rank + c) is a whole number of units of
\* 1 / (10 * ScoreUnit), ScoreUnit the product of all (rank + c)
RECURSIVE rank_product(_)
rank_product(rank) ==
    IF rank = 0 THEN 1 ELSE (rank + RankConstant) * rank_product(rank - 1)

ScoreUnit == rank_product(Max({K_Lexical, K_Vector}))

\* weight / (rank + self.c)
contribution(weight, rank) == (weight * ScoreUnit) \div (rank + RankConstant)

\* rrf_score[content] += contribution
KeepLarger(score, c) == IF c > score THEN c ELSE score
accumulate(score, c) == score + c

\* the score of `content` after the ranks from `rank` on of one list
RECURSIVE list_score(_, _, _, _, _)
list_score(score, doc_list, weight, content, rank) ==
    IF rank > Len(doc_list) THEN score
    ELSE list_score(IF doc_list[rank].page_content = content
                    THEN accumulate(score, contribution(weight, rank))
                    ELSE score,
                    doc_list, weight, content, rank + 1)

\* the score of `content` after the lists from i on
RECURSIVE lists_score(_, _, _, _, _)
lists_score(score, doc_lists, weights, content, i) ==
    IF i > Len(doc_lists) THEN score
    ELSE lists_score(list_score(score, doc_lists[i], weights[i], content, 1),
                     doc_lists, weights, content, i + 1)

\* chain.from_iterable(doc_lists)
RECURSIVE chain(_)
chain(doc_lists) ==
    IF doc_lists = <<>> THEN <<>>
    ELSE Head(doc_lists) \o chain(Tail(doc_lists))

rrf_score(doc_lists, weights, all_docs) ==
    [content \in {all_docs[i].page_content : i \in 1..Len(all_docs)} |->
        lists_score(0, doc_lists, weights, content, 1)]

\* unique_by_key(docs, lambda doc: doc.page_content): the first document of
\* every page_content
RECURSIVE unique_by_key(_, _)
KeepAll(docs, seen) == docs
unique_by_key(docs, seen) ==
    IF docs = <<>> THEN <<>>
    ELSE IF Head(docs).page_content \in seen
         THEN unique_by_key(Tail(docs), seen)
         ELSE <<Head(docs)>>
              \o unique_by_key(Tail(docs),
                               seen \cup {Head(docs).page_content})

\* where sorted(..., reverse=True) puts doc among the documents sorted before
\* it: behind those with a score at least as large (the sort is stable)
InsertBeforeEqual(doc, sorted_docs, score) ==
    Cardinality({i \in 1..Len(sorted_docs) :
        score[sorted_docs[i].page_content] > score[doc.page_content]})
insert_after(doc, sorted_docs, score) ==
    Cardinality({i \in 1..Len(sorted_docs) :
        score[sorted_docs[i].page_content] >= score[doc.page_content]})

RECURSIVE sorted_reverse(_, _, _, _)
sorted_reverse(docs, i, sorted_docs, score) ==
    IF i > Len(docs) THEN sorted_docs
    ELSE LET at == insert_after(docs[i], sorted_docs, score)
         IN  sorted_reverse(docs, i + 1,
                            SubSeq(sorted_docs, 1, at) \o <<docs[i]>>
                                \o SubSeq(sorted_docs, at + 1,
                                          Len(sorted_docs)),
                            score)

\* EnsembleRetriever.weighted_reciprocal_rank
weighted_reciprocal_rank(doc_lists, weights, score) ==
    sorted_reverse(unique_by_key(chain(doc_lists), {}), 1, <<>>, score)

\* EnsembleRetriever.rank_fusion on what the two retrievers returned
fused_record(doc_lists, score, weights) ==
    [state |-> "retrieved",
     lexical |-> doc_lists[1],
     vector |-> doc_lists[2],
     rrf_score |-> score,
     fused |-> weighted_reciprocal_rank(doc_lists, weights, score)]

scored(doc_lists, weights) ==
    fused_record(doc_lists, rrf_score(doc_lists, weights, chain(doc_lists)),
                 weights)

rank_fusion(lexical, vector, weights) == scored(<<lexical, vector>>, weights)

\* what a retriever with limit k may return from its index: documents of the
\* index, each at most once, k of them (all if the index has fewer), in the
\* order of a relevance only the library and the query decide
top_k(docs, k) ==
    LET n == IF Len(docs) < k THEN Len(docs) ELSE k
    IN  {[r \in 1..n |-> docs[s[r]]] :
            s \in {t \in [1..n -> 1..Len(docs)] :
                      \A a, b \in 1..n : a # b => t[a] # t[b]}}

\* a failed vector store leaves a retriever over the BM25 index alone
DegradeToLexical(f, next) ==
    /\ \E built \in BOOLEAN :
          retrievers' = [retrievers EXCEPT ![f] =
              [state |-> "ready",
               calls |-> <<"BM25Retriever", "Chroma">>,
               bm25 |-> _convert_to_documents(documents[f]),
               vectorstore |-> IF built
                               THEN _convert_to_documents(documents[f])
                               ELSE <<>>]]
    /\ result' = result
    /\ pc' = next

\* retriever = self.retrieval_system.setup_retrievers(documents[f]); the two
\* indexes are built by libraries, and either construction may raise
setup_retrievers(f, next) ==
    LET docs == _convert_to_documents(documents[f])
        raise(calls, e) ==
            /\ retrievers' = [retrievers EXCEPT ![f] =
                   [state |-> "failed", calls |-> calls,
                    bm25 |-> <<>>, vectorstore |-> <<>>]]
            /\ result' = error_result(e)
            /\ pc' = "done"
    IN  IF docs = <<>> THEN raise(<<>>, NoDocuments)
        ELSE \/ raise(<<"BM25Retriever">>, LibraryError)
             \/ raise(<<"BM25Retriever", "Chroma">>, LibraryError)
             \/ /\ retrievers' = [retrievers EXCEPT ![f] =
                       [state |-> "ready",
                        calls |-> <<"BM25Retriever", "Chroma">>,
                        bm25 |-> docs, vectorstore |-> docs]]
                /\ result' = result
                /\ pc' = next

SetupTermsRetriever ==
    /\ pc = "tc_retriever"
    /\ setup_retrievers("terms", "claim_retriever")
    /\ UNCHANGED <<files, processed_docs, documents, relevant, textVars>>

SetupClaimRetriever ==
    /\ pc = "claim_retriever"
    /\ setup_retrievers("claim", "retrieve")
    /\ UNCHANGED <<files, processed_docs, documents, relevant, textVars>>

\* relevant = retriever.get_relevant_documents(query): the ensemble asks both
\* retrievers and fuses what they return; any of the calls may raise
get_relevant_documents(f, next) ==
    \/ /\ result' = error_result(LibraryError)
       /\ pc' = "done"
       /\ UNCHANGED relevant
    \/ /\ \E lexical \in top_k(retrievers[f].bm25, K_Lexical),
             vector \in top_k(retrievers[f].vectorstore, K_Vector) :
             relevant' = [relevant EXCEPT ![f] =
                              rank_fusion(lexical, vector, Weights)]
       /\ result' = result
       /\ pc' = next

RetrieveTerms ==
    /\ pc = "retrieve"
    /\ get_relevant_documents("terms", "retrieve_claims")
    /\ UNCHANGED <<files, processed_docs, documents, retrievers, textVars>>

RetrieveClaims ==
    /\ pc = "retrieve_claims"
    /\ get_relevant_documents("claim", "chain")
    /\ UNCHANGED <<files, processed_docs, documents, retrievers, textVars>>

\* response = rag_chain.invoke(query), then the returned dict; the chain
\* (prompt, LLM, JSON parser) may raise
InvokeChain ==
    /\ pc = "chain"
    /\ \E raised \in BOOLEAN :
          result' = IF raised THEN error_result(LibraryError)
                    ELSE analysis_result
    /\ pc' = "done"
    /\ UNCHANGED <<files, processed_docs, documents, retrievers, relevant,
                   textVars>>

Next ==
    \/ ProcessDocuments
    \/ SetupTermsRetriever
    \/ SetupClaimRetriever
    \/ RetrieveTerms
    \/ RetrieveClaims
    \/ InvokeChain

Spec == Init /\ [][Next]_vars

\* the page_content of the documents an index holds, as a bag
indexed(docs) ==
    LET contents == {docs[i].page_content : i \in 1..Len(docs)}
    IN  [c \in contents |->
            Cardinality({i \in 1..Len(docs) : docs[i].page_content = c})]

\* C1: once setup_retrievers has built the indexes of a file, the BM25 index
\* and the vector store hold the same documents, and these are the chunks
\* process_single_document produced for the file, each exactly once.
C1_EveryChunkIndexedOnce ==
    \A f \in Files :
        retrievers[f].state = "ready" =>
            /\ retrievers[f].bm25 = retrievers[f].vectorstore
            /\ indexed(retrievers[f].bm25) = indexed(processed_docs[f])

\* C2: setup_retrievers called for a processed document without chunks (no
\* content and no section) raises "No documents available for retriever
\* setup" and constructs no index.
C2_EmptyInputRaises ==
    \A f \in Files :
        (/\ retrievers[f].state # "none"
         /\ documents[f].content = <<>>
         /\ documents[f].sections = <<>>) =>
            /\ retrievers[f].state = "failed"
            /\ retrievers[f].calls = <<>>
            /\ result = error_result(NoDocuments)

-----------------------------------------------------------------------------
(* The fusion on its own: the terms retriever of a file whose pages are
   section titles (every chunk is indexed), queried once *)

TitleVocabulary ==
    << <<"A", "A", "A">>, <<"B", "B", "B">>, <<"C", "C", "C">>,
       <<"D", "D", "D">>, <<"E", "E", "E">> >>

TitleFiles ==
    {[exists |-> TRUE, loads |-> TRUE, pages |-> SubSeq(TitleVocabulary, 1, n)] :
        n \in 1..Len(TitleVocabulary)}

\* process_claim after both retrievers were set up
InitFusion ==
    /\ pc = "retrieve"
    /\ files \in [Files -> TitleFiles]
    /\ files.claim.pages = <<TitleVocabulary[1]>>
    /\ processed_docs = [f \in Files |-> process_single_document(files[f])]
    /\ documents \in process_documents(processed_docs)
    /\ documents.terms.sections = page_contents(processed_docs.terms)
    /\ retrievers =
           [f \in Files |->
               [state |-> "ready",
                calls |-> <<"BM25Retriever", "Chroma">>,
                bm25 |-> _convert_to_documents(documents[f]),
                vectorstore |-> _convert_to_documents(documents[f])]]
    /\ relevant = [f \in Files |-> NoRelevant]
    /\ result = NoResult
    /\ text = <<>>
    /\ cleaned_content = <<>>
    /\ recleaned = <<>>
    /\ doc_type = ""
    /\ structure_type = ""
    /\ sections = <<>>
    /\ splits = <<>>

NextFusion == RetrieveTerms

SpecFusion == InitFusion /\ [][NextFusion]_vars

\* the ranks at which a list holds a document with this page_content
ranks_of(doc_list, content) ==
    {r \in 1..Len(doc_list) : doc_list[r].page_content = content}

\* the page_contents both retrievers returned
shared(r) ==
    {c \in DOMAIN r.rrf_score :
        ranks_of(r.lexical, c) # {} /\ ranks_of(r.vector, c) # {}}

\* C11: a chunk both retrievers returned is in the fused result once, and
\* its fused score is the sum of its weighted contributions 0.5 / (rank + 60)
\* in the two lists, so at least either of them.
C11_SharedChunkOnceWithSummedScore ==
    \A f \in Files :
        relevant[f].state = "retrieved" =>
            \A c \in shared(relevant[f]) :
                LET lex == (Weights[1] * ScoreUnit)
                               \div (Min(ranks_of(relevant[f].lexical, c)) + 60)
                    vec == (Weights[2] * ScoreUnit)
                               \div (Min(ranks_of(relevant[f].vector, c)) + 60)
                IN  /\ Cardinality(ranks_of(relevant[f].fused, c)) = 1
                    /\ relevant[f].rrf_score[c] = lex + vec
                    /\ relevant[f].rrf_score[c] >= lex
                    /\ relevant[f].rrf_score[c] >= vec

\* a query for which the retrievers agree on one chunk and differ on others
C11_OneShared ==
    /\ relevant.terms.state = "retrieved"
    /\ Cardinality(shared(relevant.terms)) = 1
    /\ Len(relevant.terms.fused) = 4

\* C12: the fused result has at most 3 + 2 = 5 entries, fewer when a chunk
\* was returned by both retrievers, and at most 4 when exactly one was.
C12_AtMostFiveLessShared ==
    \A f \in Files :
        relevant[f].state = "retrieved" =>
            /\ Len(relevant[f].lexical) <= 3
            /\ Len(relevant[f].vector) <= 2
            /\ Len(relevant[f].fused) <= 5
            /\ shared(relevant[f]) # {} => Len(relevant[f].fused) < 5
            /\ Cardinality(shared(relevant[f])) = 1
                   => Len(relevant[f].fused) <= 4
            /\ Len(relevant[f].fused) + Cardinality(shared(relevant[f]))
                   = Len(relevant[f].lexical) + Len(relevant[f].vector)

\* five chunks from an index of five: the retrievers agree on none
C12_FiveEntries ==
    /\ relevant.terms.state = "retrieved"
    /\ shared(relevant.terms) = {}
    /\ Len(relevant.terms.fused) = 5

\* the place of a page_content in the lexical result followed by the vector
\* result
first_seen(r, c) == Min(ranks_of(r.lexical \o r.vector, c))

\* C13: the fused result is in order of non-increasing fused score, and of
\* two chunks with the same fused score the one that comes first in the
\* lexical result followed by the vector result comes first.
C13_SortedStableByScore ==
    \A f \in Files :
        relevant[f].state = "retrieved" =>
            \A i, j \in 1..Len(relevant[f].fused) :
                i < j =>
                    LET a == relevant[f].fused[i].page_content
                        b == relevant[f].fused[j].page_content
                    IN  /\ relevant[f].rrf_score[a] >= relevant[f].rrf_score[b]
                        /\ relevant[f].rrf_score[a] = relevant[f].rrf_score[b]
                               => first_seen(relevant[f], a)
                                      < first_seen(relevant[f], b)

\* two chunks with the same fused score: the first of the lexical result and
\* the first of the vector result, each returned by one retriever only
C13_EqualScores ==
    /\ relevant.terms.state = "retrieved"
    /\ Len(relevant.terms.fused) >= 3
    /\ \E i \in 1..(Len(relevant.terms.fused) - 1) :
          /\ relevant.terms.rrf_score[relevant.terms.fused[i].page_content]
                 = relevant.terms.rrf_score[
                       relevant.terms.fused[i + 1].page_content]
          /\ relevant.terms.fused[i] = relevant.terms.lexical[1]
          /\ relevant.terms.fused[i + 1] = relevant.terms.vector[1]

\* the pages of a file that clean_text does not leave empty
readable_pages(file) ==
    {i \in 1..Len(file.pages) : \E k \in 1..Len(file.pages[i]) :
        file.pages[i][k] \notin WS}

\* C14: a file that does not exist gives no chunk and no content, nothing is
\* raised, and the other file is processed all the same: its content is its
\* chunks joined by newlines, and it has chunks when one of its pages has text.
C14_MissingFileSkipped ==
    pc # "start" =>
        \A f, g \in Files :
            (f # g /\ ~files[f].exists) =>
                /\ processed_docs[f] = <<>>
                /\ documents[f].content = <<>>
                /\ result.status # "error" \/ retrievers.terms.state # "none"
                /\ documents[g].content
                       = join(<<NL>>, page_contents(processed_docs[g]))
                /\ readable_pages(files[g]) # {} =>
                       /\ processed_docs[g] # <<>>
                       /\ documents[g].content # <<>>

\* the terms file is missing and the claim file has two pages of text
C14_MissingTermsTwoClaimPages ==
    /\ pc = "tc_retriever"
    /\ ~files.terms.exists
    /\ Len(processed_docs.claim) = 2
    /\ Len(documents.claim.content) > Len(processed_docs.claim[1].page_content)

\* C15: when the construction of the BM25 index or of the vector store
\* fails, setup_retrievers raises: process_claim ends with an error, no
\* retriever exists for the file and none is queried; each index is built at
\* most once, and a retriever that exists has both indexes.
C15_NoRetrieverOnBuildFailure ==
    \A f \in Files :
        /\ retrievers[f].state = "failed" =>
              /\ pc = "done"
              /\ result.status = "error"
              /\ retrievers[f].bm25 = <<>>
              /\ retrievers[f].vectorstore = <<>>
              /\ relevant[f].state = "none"
        /\ retrievers[f].state = "ready" =>
              /\ retrievers[f].bm25 # <<>>
              /\ retrievers[f].vectorstore = retrievers[f].bm25
        /\ relevant[f].state = "retrieved" => retrievers[f].state = "ready"
        /\ \A i, j \in 1..Len(retrievers[f].calls) :
              i # j => retrievers[f].calls[i] # retrievers[f].calls[j]

\* the vector store of the claim file fails after its BM25 index was built
C15_VectorStoreFailed ==
    /\ retrievers.terms.state = "ready"
    /\ retrievers.claim.state = "failed"
    /\ retrievers.claim.calls = <<"BM25Retriever", "Chroma">>
    /\ result = error_result(LibraryError)

-----------------------------------------------------------------------------
(* process_documents on a terms file of one page with lines: headers with
   and without body lines *)

LinedFiles ==
    {[exists |-> TRUE, loads |-> TRUE, pages |-> <<t>>] :
        t \in UnitTexts(MaxUnits)}

InitIngest ==
    /\ pc = "start"
    /\ files \in [Files -> LinedFiles \cup {NoFile}]
    /\ files.terms \in LinedFiles
    /\ files.claim = NoFile
    /\ processed_docs = [f \in Files |-> <<>>]
    /\ documents = [f \in Files |-> [content |-> <<>>, sections |-> <<>>]]
    /\ retrievers = [f \in Files |-> NoRetriever]
    /\ relevant = [f \in Files |-> NoRelevant]
    /\ result = NoResult
    /\ text = <<>>
    /\ cleaned_content = <<>>
    /\ recleaned = <<>>
    /\ doc_type = ""
    /\ structure_type = ""
    /\ sections = <<>>
    /\ splits = <<>>

NextIngest == ProcessDocuments

SpecIngest == InitIngest /\ [][NextIngest]_vars

\* C17: whatever the pages of a file hold, their cleaned text has no newline
\* and at most one header match, every chunk of the file is tagged
\* "standard", and no chunk comes from the section branch (a chunk of that
\* branch would start at a line of the page, and lines are gone).
C17_AlwaysStandard ==
    pc # "start" =>
        \A f \in Files :
            /\ \A i \in 1..Len(files[f].pages) :
                  /\ NL \notin {clean_text(files[f].pages[i])[k] :
                         k \in 1..Len(clean_text(files[f].pages[i]))}
                  /\ findall_count(clean_text(files[f].pages[i]), 1) <= 1
            /\ \A i \in 1..Len(processed_docs[f]) :
                  /\ processed_docs[f][i].structure_type = "standard"
                  /\ NL \notin {processed_docs[f][i].page_content[k] :
                         k \in 1..Len(processed_docs[f][i].page_content)}

\* a page of six headers on lines of their own, which detect_structure_type
\* would report structured as it is
C17_StructuredRawPage ==
    /\ pc # "start"
    /\ detect_structure_type(files.terms.pages[1]) = "structured"
    /\ processed_docs.terms # <<>>
    /\ processed_docs.terms[1].structure_type = "standard"

\* C18: when a file gave no chunk, process_claim returns the "Missing
\* required document types" (or "No documents were successfully processed")
\* error and sets up no retriever, queries none and does not call the LLM.
C18_NoChunksEndsRequest ==
    (pc # "start" /\ \E f \in Files : processed_docs[f] = <<>>) =>
        /\ pc = "done"
        /\ result.status = "error"
        /\ result.error \in {MissingTypes, NoneProcessed}
        /\ \A f \in Files :
              /\ retrievers[f].state = "none"
              /\ relevant[f].state = "none"

\* C19: process_claim always ends with a dict that has "metadata" and
\* exactly one of "error" and "analysis"; it is the error form when a
\* retriever could not be set up, and the analysis form only after both
\* retrievals; before the end nothing is returned.
C19_ErrorOrAnalysis ==
    /\ pc # "done" => result = NoResult
    /\ pc = "done" =>
          /\ "metadata" \in result.keys
          /\ ("error" \in result.keys) # ("analysis" \in result.keys)
          /\ result.keys \subseteq {"error", "analysis", "metadata"}
          /\ (\E f \in Files : retrievers[f].state # "ready")
                 => "error" \in result.keys
          /\ (\E f \in Files : relevant[f].state # "retrieved")
                 => "error" \in result.keys
          /\ "error" \in result.keys => result.error # ""

\* a retrieval that raised after both retrievers were set up
C19_RetrievalRaised ==
    /\ pc = "done"
    /\ \A f \in Files : retrievers[f].state = "ready"
    /\ relevant.terms.state = "retrieved"
    /\ relevant.claim.state = "none"
    /\ result = error_result(LibraryError)

=============================================================================
